---- MODULE Spec2Model ----
(***************************************************************************)
(* Model of src/src/blockchain.js: the Blockchain class (chain array, the  *)
(* two indices, _addBlock, submitStar and the lookups), run on the         *)
(* JavaScript event loop.  Every `await` of the source ends an atomic      *)
(* segment; the continuation is a job in the FIFO microtask queue.         *)
(* Callers may invoke the public methods between any two jobs.             *)
(***************************************************************************)
EXTENDS Integers, Sequences, FiniteSets

VARIABLES chain, indexHashToHeight, indexAddressToHeights,
          nowMs, procs, microtasks, committedBy, ncalls, last

vars == <<chain, indexHashToHeight, indexAddressToHeights,
          nowMs, procs, microtasks, committedBy, ncalls, last>>

(* ------------------------------ bounds --------------------------------- *)

\* number of calls of the methods of the class
MaxCalls == 2

\* number of clock advances
MaxTicks == 1

\* number of fields of committed blocks that are changed from outside
MaxTampers == 1

\* the wall clock at construction, in milliseconds
StartMs == 1000500

\* one clock advance, in milliseconds
TickMs == 500

Addresses == {"A", "B"}

Stars == {"s1", "s2"}

\* ages (seconds) of the issued challenge messages a caller submits
Elapsed == {-1, 299, 300}

\* timestamp fields a caller may write into a hand-made message
CustomTimes == {<<"0">>, <<"-", "5">>, <<"x">>}

(* --------------------------- JavaScript values ------------------------- *)

\* null
Null == <<>>

\* ''
EmptyString == <<"">>

DigitChars == <<"0", "1", "2", "3", "4", "5", "6", "7", "8", "9">>

IsDigit(c) == \E d \in 1..10 : DigitChars[d] = c

DigitVal(c) == (CHOOSE d \in 1..10 : DigitChars[d] = c) - 1

\* Number.prototype.toString() of a non-negative integer
RECURSIVE ToString(_)
ToString(n) ==
    IF n < 10 THEN <<DigitChars[n + 1]>>
    ELSE ToString(n \div 10) \o <<DigitChars[(n % 10) + 1]>>

\* String.prototype.slice(0, -3)
SliceOffMillis(s) == SubSeq(s, 1, Len(s) - 3)

\* value of the longest prefix of decimal digits of s, given the value so far
RECURSIVE DigitsPrefix(_, _)
DigitsPrefix(s, acc) ==
    IF s = <<>> \/ ~IsDigit(Head(s)) THEN acc
    ELSE DigitsPrefix(Tail(s), 10 * acc + DigitVal(Head(s)))

\* parseInt(s): optional sign, then the longest prefix of digits; NaN when
\* there is no digit
ParseInt(s) ==
    LET neg  == s # <<>> /\ Head(s) = "-"
        rest == IF s # <<>> /\ Head(s) \in {"-", "+"} THEN Tail(s) ELSE s
    IN IF rest = <<>> \/ ~IsDigit(Head(rest))
       THEN [nan |-> TRUE, val |-> 0]
       ELSE [nan |-> FALSE,
             val |-> IF neg THEN 0 - DigitsPrefix(rest, 0)
                     ELSE DigitsPrefix(rest, 0)]

\* String.prototype.split(':'): parts is the list of finished parts, cur the
\* part being read
RECURSIVE SplitFrom(_, _, _)
SplitFrom(s, parts, cur) ==
    IF s = <<>> THEN Append(parts, cur)
    ELSE IF Head(s) = ":" THEN SplitFrom(Tail(s), Append(parts, cur), <<>>)
    ELSE SplitFrom(Tail(s), parts, Append(cur, Head(s)))

Split(s) == SplitFrom(s, <<>>, <<>>)

\* new Date().getTime().toString().slice(0,-3)
CurrentTimeString(ms) == SliceOffMillis(ToString(ms))

messageTTLinSeconds == 5 * 60

(* ------------------------------- blocks -------------------------------- *)

\* body encoding of the Block constructor
Encode(data) == <<"hex", data>>

\* Block.getBData
getBData(block) == block.body[2]

\* new BlockClass.Block(data)
Block(data) ==
    [hash |-> Null, height |-> 0, body |-> Encode(data),
     time |-> <<"0">>, previousBlockHash |-> Null]

\* SHA256(JSON.stringify(block)).toString(): equal digests for equal
\* serialisations, different digests otherwise
SHA256(block) == <<"sha256", block>>

\* Block.validate
validate(block) == SHA256([block EXCEPT !.hash = EmptyString]) = block.hash

(* ------------------------------- lookups ------------------------------- *)

getChainHeight == Len(chain)

\* the lookup with the lower bound of the range test off by one
getBlockByHeightAboveZero(height) ==
    IF height > 0 /\ height < Len(chain) THEN <<chain[height + 1]>> ELSE Null

\* resolves with the block (here <<block>>) or with null
getBlockByHeight(height) ==
    IF height >= 0 /\ height < Len(chain) THEN <<chain[height + 1]>> ELSE Null

\* the outcomes of getBlockByHash: `self` is not bound in that method, so
\* the lookup of self.indexHashToHeight[hash] throws before any block is read
getBlockByHash(hash) ==
    {[kind |-> "throw", error |-> "ReferenceError"],
     [kind |-> "throw", error |-> "TypeError"]}

Lookup(index, key, default) ==
    IF key \in DOMAIN index THEN index[key] ELSE default

Put(index, key, value) ==
    [k \in DOMAIN index \cup {key} |-> IF k = key THEN value ELSE index[k]]

\* getStarsByWalletAddress(address)
getStarsByWalletAddress(address) ==
    LET heights == Lookup(indexAddressToHeights, address, <<>>)
    IN [k \in 1..Len(heights) |-> getBData(getBlockByHeight(heights[k])[1])]

(* ------------------- ownership verification protocol ------------------- *)

\* requestMessageOwnershipVerification(address) at wall-clock time ms
requestMessageOwnershipVerification(address, ms) ==
    <<address, ":">> \o CurrentTimeString(ms) \o <<":", "starRegistry">>

\* a signature made with the key of `signer` over `message`
Sign(signer, message) == [signer |-> signer, message |-> message]

\* bitcoinMessage.verify(message, address, signature)
verify(message, address, signature) ==
    signature.signer = address /\ signature.message = message

\* the expiry test with the boundary second taken as still valid
TimeExpiredStrict(timeDiff) == timeDiff > messageTTLinSeconds

\* timeDiff >= messageTTLinSeconds
TimeExpired(timeDiff) == timeDiff >= messageTTLinSeconds

\* !messageTime
TimeInvalid(messageTime) == messageTime.nan \/ messageTime.val = 0

\* the checks of submitStar with the shape test reduced to the part count
submitStarChecksNoTag(address, message, signature, ms) ==
    LET messageParts == Split(message)
        messageTime  == ParseInt(messageParts[2])
        currentTime  == ParseInt(CurrentTimeString(ms)).val
    IN IF Len(messageParts) < 3
       THEN "malformed message"
       ELSE IF messageParts[1] # <<address>>
       THEN "message address does not match given address"
       ELSE IF TimeInvalid(messageTime)
       THEN "message time is invalid"
       ELSE IF TimeExpired(currentTime - messageTime.val)
       THEN "star can no longer be validated with this message"
       ELSE IF ~verify(message, address, signature)
       THEN "message verification failed"
       ELSE "accepted"

\* the synchronous checks of submitStar: the rejection, or "accepted"
submitStarChecks(address, message, signature, ms) ==
    LET messageParts == Split(message)
        messageTime  == ParseInt(messageParts[2])
        currentTime  == ParseInt(CurrentTimeString(ms)).val
    IN IF Len(messageParts) # 3 \/ messageParts[3] # <<"starRegistry">>
       THEN "malformed message"
       ELSE IF messageParts[1] # <<address>>
       THEN "message address does not match given address"
       ELSE IF TimeInvalid(messageTime)
       THEN "message time is invalid"
       ELSE IF TimeExpired(currentTime - messageTime.val)
       THEN "star can no longer be validated with this message"
       ELSE IF ~verify(message, address, signature)
       THEN "message verification failed"
       ELSE "accepted"

(* ------------------------------- inputs -------------------------------- *)

\* what a caller may pass as message: an issued challenge of some age, a
\* hand-made one with another timestamp field, or one of another shape
MessageInputs ==
    {[message |-> requestMessageOwnershipVerification(a, nowMs - 1000 * d),
      form |-> "issued", issuedMs |-> nowMs - 1000 * d]
        : a \in Addresses, d \in Elapsed}
    \cup
    {[message |-> <<"A", ":">> \o t \o <<":", "starRegistry">>,
      form |-> "custom", issuedMs |-> 0]
        : t \in CustomTimes}
    \cup
    {[message |-> <<"A", ":", "1", "2", "3">>,
      form |-> "two parts", issuedMs |-> 0],
     [message |-> <<"A", ":", "1", "2", "3", ":", "star">>,
      form |-> "wrong tag", issuedMs |-> 0],
     [message |-> <<"A", ":", "1", "2", "3", ":", "starRegistry", ":", "x">>,
      form |-> "four parts", issuedMs |-> 0]}

(* ------------------------------- state --------------------------------- *)

EmptyIndex == [k \in {} |-> 0]

NoCall == [op |-> "none"]

\* the constructor has run: initializeChain has called _addBlock, which has
\* read the height and waits in the microtask queue
Init ==
    /\ chain = <<>>
    /\ indexHashToHeight = EmptyIndex
    /\ indexAddressToHeights = EmptyIndex
    /\ nowMs = StartMs
    /\ procs = <<[kind |-> "initializeChain", address |-> "", star |-> "{}",
                  pc |-> "await getChainHeight", heightRead |-> 0,
                  block |-> Block("{}"), previousBlock |-> Null]>>
    /\ microtasks = <<1>>
    /\ committedBy = <<>>
    /\ ncalls = 0
    /\ last = NoCall

(* ------------------------------ _addBlock ------------------------------ *)

Running(p) == microtasks # <<>> /\ Head(microtasks) = p

SetProc(p, r) == [procs EXCEPT ![p] = r]

\* a block that reads its predecessor takes it from the store as it is now
PreviousBlockOf(height) == getBlockByHeight(height - 1)

\* the commit with the hash index left as it was
CommitNoIndex(p, b) ==
    LET blanked   == [b EXCEPT !.hash = EmptyString]
        committed == [blanked EXCEPT !.hash = SHA256(blanked)]
    IN /\ chain' = Append(chain, committed)
       /\ indexHashToHeight' = indexHashToHeight
       /\ committedBy' = Append(committedBy, p)
       /\ procs' = SetProc(p, [procs[p] EXCEPT !.block = committed,
                                               !.pc = "await _addBlock"])
       /\ microtasks' = Append(Tail(microtasks), p)

\* lines 79-89 of _addBlock for the process p and its stamped block b: hash,
\* push, index update, resolve (which queues the caller's continuation)
Commit(p, b) ==
    LET blanked   == [b EXCEPT !.hash = EmptyString]
        committed == [blanked EXCEPT !.hash = SHA256(blanked)]
    IN /\ chain' = Append(chain, committed)
       /\ indexHashToHeight' =
              Put(indexHashToHeight, committed.hash, committed.height)
       /\ committedBy' = Append(committedBy, p)
       /\ procs' = SetProc(p, [procs[p] EXCEPT !.block = committed,
                                               !.pc = "await _addBlock"])
       /\ microtasks' = Append(Tail(microtasks), p)

\* _addBlock resumes after `await self.getChainHeight()`: lines 71-78, and
\* lines 79-89 as well when the height read is 0
addBlockAfterHeight(p) ==
    /\ Running(p)
    /\ procs[p].pc = "await getChainHeight"
    /\ LET b == [procs[p].block EXCEPT !.height = procs[p].heightRead,
                                       !.time = CurrentTimeString(nowMs)]
       IN IF b.height > 0
          THEN /\ procs' = SetProc(p, [procs[p] EXCEPT
                             !.block = b,
                             !.previousBlock = PreviousBlockOf(b.height),
                             !.pc = "await getBlockByHeight"])
               /\ microtasks' = Append(Tail(microtasks), p)
               /\ UNCHANGED <<chain, indexHashToHeight, committedBy>>
          ELSE Commit(p, b)
    /\ last' = NoCall
    /\ UNCHANGED <<indexAddressToHeights, nowMs, ncalls>>

\* _addBlock resumes after `await self.getBlockByHeight(...)`: lines 77-89
addBlockAfterPrevious(p) ==
    /\ Running(p)
    /\ procs[p].kind \in {"initializeChain", "submitStar"}
    /\ procs[p].pc = "await getBlockByHeight"
    /\ procs[p].previousBlock # Null
    /\ Commit(p, [procs[p].block EXCEPT
                    !.previousBlockHash = procs[p].previousBlock[1].hash])
    /\ last' = NoCall
    /\ UNCHANGED <<indexAddressToHeights, nowMs, ncalls>>

\* initializeChain resumes after `await this._addBlock(genesis)`
initializeChainAfterAddBlock(p) ==
    /\ Running(p)
    /\ procs[p].pc = "await _addBlock"
    /\ procs[p].kind = "initializeChain"
    /\ procs' = SetProc(p, [procs[p] EXCEPT !.pc = "resolved"])
    /\ microtasks' = Tail(microtasks)
    /\ last' = NoCall
    /\ UNCHANGED <<chain, indexHashToHeight, indexAddressToHeights,
                   nowMs, committedBy, ncalls>>

(* ------------------------------ submitStar ----------------------------- *)

\* the index update that starts the entry anew at every submission
AddHeightOverwrite(index, address, height) == Put(index, address, <<height>>)

\* the index update of lines 166-171
AddHeight(index, address, height) ==
    IF address \in DOMAIN index
    THEN Put(index, address, Append(index[address], height))
    ELSE Put(index, address, <<height>>)

\* submitStar calling _addBlock before the signature is verified
submitStarUnverified(address, m, signer) ==
    /\ ncalls < MaxCalls
    /\ \E outcome \in {submitStarChecks(address, m.message,
                                     Sign(signer, m.message), nowMs)} :
       \E star \in Stars :
       /\ ncalls' = ncalls + 1
       /\ last' = [op |-> "submitStar", address |-> address,
                   message |-> m.message, form |-> m.form,
                   issuedMs |-> m.issuedMs, signer |-> signer,
                   nowMs |-> nowMs, outcome |-> outcome]
       /\ IF outcome \in {"accepted", "message verification failed"}
          THEN /\ procs' = Append(procs,
                     [kind |-> "submitStar", address |-> address,
                      star |-> star, pc |-> "await getChainHeight",
                      heightRead |-> getChainHeight,
                      block |-> Block(star), previousBlock |-> Null])
               /\ microtasks' = Append(microtasks, Len(procs) + 1)
          ELSE UNCHANGED <<procs, microtasks>>
       /\ UNCHANGED <<chain, indexHashToHeight, indexAddressToHeights,
                      nowMs, committedBy>>

\* submitStar up to its first await: the checks, then on success the call
\* of _addBlock, which reads the height and waits.  The payload of a call
\* that ends in a rejection is never read: one payload stands for all.
submitStar(address, m, signer) ==
    /\ ncalls < MaxCalls
    /\ \E outcome \in {submitStarChecks(address, m.message,
                                     Sign(signer, m.message), nowMs)} :
       \E star \in IF outcome = "accepted" THEN Stars ELSE {"s1"} :
       /\ ncalls' = ncalls + 1
       /\ last' = [op |-> "submitStar", address |-> address,
                   message |-> m.message, form |-> m.form,
                   issuedMs |-> m.issuedMs, signer |-> signer,
                   nowMs |-> nowMs, outcome |-> outcome]
       /\ IF outcome = "accepted"
          THEN /\ procs' = Append(procs,
                     [kind |-> "submitStar", address |-> address,
                      star |-> star, pc |-> "await getChainHeight",
                      heightRead |-> getChainHeight,
                      block |-> Block(star), previousBlock |-> Null])
               /\ microtasks' = Append(microtasks, Len(procs) + 1)
          ELSE UNCHANGED <<procs, microtasks>>
       /\ UNCHANGED <<chain, indexHashToHeight, indexAddressToHeights,
                      nowMs, committedBy>>

\* the block object that _addBlock pushed for the process p and resolved with
CommittedBlock(p) == chain[CHOOSE i \in 1..Len(chain) : committedBy[i] = p]

\* submitStar resumes after `await self._addBlock(...)`: lines 166-174
submitStarAfterAddBlock(p) ==
    /\ Running(p)
    /\ procs[p].pc = "await _addBlock"
    /\ procs[p].kind = "submitStar"
    /\ indexAddressToHeights' =
           AddHeight(indexAddressToHeights, procs[p].address,
                     CommittedBlock(p).height)
    /\ procs' = SetProc(p, [procs[p] EXCEPT !.pc = "resolved"])
    /\ microtasks' = Tail(microtasks)
    /\ last' = NoCall
    /\ UNCHANGED <<chain, indexHashToHeight, nowMs, committedBy, ncalls>>

(* -------------------------------- reads -------------------------------- *)

\* hashes a caller may ask for: those of the committed blocks and one of a
\* block that was never committed
KnownHashes == {chain[i].hash : i \in 1..Len(chain)}

UnknownHash == SHA256([Block("s0") EXCEPT !.hash = EmptyString])

\* a call of getBlockByHash(hash)
getBlockByHashCall(hash) ==
    /\ ncalls < MaxCalls
    /\ ncalls' = ncalls + 1
    /\ \E outcome \in getBlockByHash(hash) :
           last' = [op |-> "getBlockByHash", hash |-> hash,
                    outcome |-> outcome]
    /\ UNCHANGED <<chain, indexHashToHeight, indexAddressToHeights,
                   nowMs, procs, microtasks, committedBy>>

\* a call of getBlockByHeight(height)
getBlockByHeightCall(height) ==
    /\ ncalls < MaxCalls
    /\ ncalls' = ncalls + 1
    /\ last' = [op |-> "getBlockByHeight", height |-> height,
                outcome |-> [kind |-> "return",
                             value |-> getBlockByHeight(height)]]
    /\ UNCHANGED <<chain, indexHashToHeight, indexAddressToHeights,
                   nowMs, procs, microtasks, committedBy>>

(* ---------------------------- validateChain ---------------------------- *)

\* validateChain up to its first await: the loop test for i = 0 and, when it
\* holds, the call of getBlockByHeight(0); an empty loop resolves at once
validateChainCall ==
    /\ ncalls < MaxCalls
    /\ ncalls' = ncalls + 1
    /\ IF 0 < Len(chain) - 1
       THEN /\ procs' = Append(procs,
                  [kind |-> "validateChain", pc |-> "await getBlockByHeight",
                   i |-> 0, errorLog |-> <<>>, previousBlockHash |-> Null,
                   isValid |-> TRUE])
            /\ microtasks' = Append(microtasks, Len(procs) + 1)
            /\ last' = [op |-> "validateChain",
                        outcome |-> [kind |-> "pending"]]
       ELSE /\ last' = [op |-> "validateChain",
                        outcome |-> [kind |-> "return", value |-> <<>>]]
            /\ UNCHANGED <<procs, microtasks>>
    /\ UNCHANGED <<chain, indexHashToHeight, indexAddressToHeights,
                   nowMs, committedBy>>

\* validateChain resumes after `await self.getBlockByHeight(i)` and calls
\* block.validate()
validateChainAfterBlock(p) ==
    /\ Running(p)
    /\ procs[p].kind = "validateChain"
    /\ procs[p].pc = "await getBlockByHeight"
    /\ procs' = SetProc(p, [procs[p] EXCEPT
                  !.isValid = validate(chain[procs[p].i + 1]),
                  !.pc = "await validate"])
    /\ microtasks' = Append(Tail(microtasks), p)
    /\ last' = NoCall
    /\ UNCHANGED <<chain, indexHashToHeight, indexAddressToHeights,
                   nowMs, committedBy, ncalls>>

\* the diagnostics of lines 257-263 for the block at height i
Diagnostics(i, isValid, block, previousBlockHash) ==
    (IF ~isValid THEN <<<<"block is invalid", i>>>> ELSE <<>>)
    \o (IF block.previousBlockHash # previousBlockHash
        THEN <<<<"chain broke at block", i>>>> ELSE <<>>)

\* validateChain resumes after `await block.validate()`: lines 257-264.  The
\* assignment of line 264 to the const previousBlockHash throws a TypeError
\* inside the async executor, so resolve is never called
validateChainAfterValidate(p) ==
    /\ Running(p)
    /\ procs[p].kind = "validateChain"
    /\ procs[p].pc = "await validate"
    /\ procs' = SetProc(p, [procs[p] EXCEPT
                  !.errorLog = procs[p].errorLog \o
                      Diagnostics(procs[p].i, procs[p].isValid,
                                  chain[procs[p].i + 1],
                                  procs[p].previousBlockHash),
                  !.pc = "thrown"])
    /\ microtasks' = Tail(microtasks)
    /\ last' = NoCall
    /\ UNCHANGED <<chain, indexHashToHeight, indexAddressToHeights,
                   nowMs, committedBy, ncalls>>

(* ---------------------------- validateBlock ---------------------------- *)

\* the block at a position of the store as _addBlock committed it
Original(i) == procs[committedBy[i]].block

BlockFields == {"height", "time", "body", "previousBlockHash"}

\* a value for a field that no committed block carries in that field
Forged(field, value) ==
    CASE field = "height" -> value + 100
      [] field = "time" -> <<"9">>
      [] field = "body" -> Encode("forged")
      [] field = "previousBlockHash" -> <<"forged">>

TamperedFields ==
    {<<i, f>> \in (1..Len(chain)) \X BlockFields : chain[i][f] # Original(i)[f]}

Tampered(i) == \E f \in BlockFields : <<i, f>> \in TamperedFields

\* someone outside the class changes a field, other than hash, of the
\* committed block at position i and does not re-derive the hash
Tamper(i, field) ==
    /\ Cardinality(TamperedFields) < MaxTampers
    /\ <<i, field>> \notin TamperedFields
    /\ chain' = [chain EXCEPT ![i][field] = Forged(field, chain[i][field])]
    /\ last' = NoCall
    /\ UNCHANGED <<indexHashToHeight, indexAddressToHeights, nowMs, procs,
                   microtasks, committedBy, ncalls>>

\* validateBlock(blockHeight) for the height of a committed block, up to its
\* first await
validateBlockCall(blockHeight) ==
    /\ ncalls < MaxCalls
    /\ ncalls' = ncalls + 1
    /\ getBlockByHeight(blockHeight) # Null
    /\ procs' = Append(procs,
           [kind |-> "validateBlock", pc |-> "await getBlockByHeight",
            blockHeight |-> blockHeight, isValid |-> TRUE, result |-> TRUE,
            tamperedAtCall |-> Tampered(blockHeight + 1),
            tamperedAtValidate |-> FALSE])
    /\ microtasks' = Append(microtasks, Len(procs) + 1)
    /\ last' = [op |-> "validateBlock", blockHeight |-> blockHeight]
    /\ UNCHANGED <<chain, indexHashToHeight, indexAddressToHeights,
                   nowMs, committedBy>>

\* validateBlock resumes after `await self.getBlockByHeight(blockHeight)`
\* and calls block.validate()
validateBlockAfterBlock(p) ==
    /\ Running(p)
    /\ procs[p].kind = "validateBlock"
    /\ procs[p].pc = "await getBlockByHeight"
    /\ procs' = SetProc(p, [procs[p] EXCEPT
                  !.isValid = validate(chain[procs[p].blockHeight + 1]),
                  !.tamperedAtValidate = Tampered(procs[p].blockHeight + 1),
                  !.pc = "await validate"])
    /\ microtasks' = Append(Tail(microtasks), p)
    /\ last' = NoCall
    /\ UNCHANGED <<chain, indexHashToHeight, indexAddressToHeights,
                   nowMs, committedBy, ncalls>>

\* validateBlock resolving with true whatever block.validate() answered
validateBlockAlwaysTrue(p) ==
    /\ Running(p)
    /\ procs[p].kind = "validateBlock"
    /\ procs[p].pc = "await validate"
    /\ procs' = SetProc(p, [procs[p] EXCEPT !.result = TRUE,
                                            !.pc = "resolved"])
    /\ microtasks' = Tail(microtasks)
    /\ last' = NoCall
    /\ UNCHANGED <<chain, indexHashToHeight, indexAddressToHeights,
                   nowMs, committedBy, ncalls>>

\* validateBlock resumes after `await block.validate()` and resolves
validateBlockAfterValidate(p) ==
    /\ Running(p)
    /\ procs[p].kind = "validateBlock"
    /\ procs[p].pc = "await validate"
    /\ procs' = SetProc(p, [procs[p] EXCEPT !.result = procs[p].isValid,
                                            !.pc = "resolved"])
    /\ microtasks' = Tail(microtasks)
    /\ last' = NoCall
    /\ UNCHANGED <<chain, indexHashToHeight, indexAddressToHeights,
                   nowMs, committedBy, ncalls>>

(* ------------------------------ the clock ------------------------------ *)

Tick ==
    /\ nowMs < StartMs + MaxTicks * TickMs
    /\ nowMs' = nowMs + TickMs
    /\ last' = NoCall
    /\ UNCHANGED <<chain, indexHashToHeight, indexAddressToHeights,
                   procs, microtasks, committedBy, ncalls>>

(* ---------------------------- specification ---------------------------- *)

Procs == 1..Len(procs)

Next ==
    \/ \E p \in Procs : addBlockAfterHeight(p)
    \/ \E p \in Procs : addBlockAfterPrevious(p)
    \/ \E p \in Procs : initializeChainAfterAddBlock(p)
    \/ \E p \in Procs : submitStarAfterAddBlock(p)
    \/ \E address \in Addresses, m \in MessageInputs, signer \in Addresses :
           submitStar(address, m, signer)
    \/ \E hash \in KnownHashes \cup {UnknownHash} : getBlockByHashCall(hash)
    \/ \E height \in (0 - 1)..Len(chain) : getBlockByHeightCall(height)
    \/ validateChainCall
    \/ \E p \in Procs : validateChainAfterBlock(p)
    \/ \E p \in Procs : validateChainAfterValidate(p)
    \/ Tick

Spec == Init /\ [][Next]_vars

\* a challenge issued now for the address
FreshInput(address) ==
    [message |-> requestMessageOwnershipVerification(address, nowMs),
     form |-> "issued", issuedMs |-> nowMs]

\* the chain under valid submissions, outside changes to committed blocks
\* and validateBlock calls, all within one second of the clock
NextTamper ==
    \/ \E p \in Procs : addBlockAfterHeight(p)
    \/ \E p \in Procs : addBlockAfterPrevious(p)
    \/ \E p \in Procs : initializeChainAfterAddBlock(p)
    \/ \E p \in Procs : submitStarAfterAddBlock(p)
    \/ \E address \in Addresses :
           submitStar(address, FreshInput(address), address)
    \/ \E i \in 1..Len(chain), field \in BlockFields : Tamper(i, field)
    \/ \E h \in 0..(Len(chain) - 1) : validateBlockCall(h)
    \/ \E p \in Procs : validateBlockAfterBlock(p)
    \/ \E p \in Procs : validateBlockAfterValidate(p)

SpecTamper == Init /\ [][NextTamper]_vars

(* ------------------------------ properties ----------------------------- *)

\* the positions in the chain of the blocks committed for submitStar calls
StarBlocks == {i \in 1..Len(chain) : procs[committedBy[i]].kind = "submitStar"}

\* the submitStar calls that have resolved
Resolved == {p \in Procs : procs[p].kind = "submitStar" /\ procs[p].pc = "resolved"}

\* C1: after every commit every block's height is its index in the store
C1_HeightIsIndex == \A i \in 1..Len(chain) : chain[i].height = i - 1

\* C2: linkage: every block but the first carries the stored hash of its
\* predecessor as previousBlockHash, and the first block carries none
C2_Linkage ==
    \A i \in 1..Len(chain) :
        IF i = 1 THEN chain[i].previousBlockHash = Null
        ELSE chain[i].previousBlockHash = chain[i - 1].hash

\* C3: commits are serialized: no two submitStar calls, also when made
\* after the genesis block is in the store, commit two blocks with the same
\* height or the same previousBlockHash
C3_CommitsSerialized ==
    \A i, j \in {k \in StarBlocks : procs[committedBy[k]].heightRead > 0} :
        i # j => /\ chain[i].height # chain[j].height
                 /\ chain[i].previousBlockHash # chain[j].previousBlockHash

\* C4: genesis comes first: no submitStar call reads an empty store, and no
\* block of a submitStar call has height 0 or is the first block of the chain
C4_GenesisFirst ==
    /\ \A p \in Procs : procs[p].kind = "submitStar" => procs[p].heightRead # 0
    /\ \A i \in StarBlocks : chain[i].height # 0 /\ i # 1

\* C5: ownership safety: every height in the index entry of an address is
\* that of a block in the store committed by a submitStar call for that address
C5_OwnershipSafety ==
    \A a \in DOMAIN indexAddressToHeights :
        \A k \in 1..Len(indexAddressToHeights[a]) :
            LET h == indexAddressToHeights[a][k]
            IN /\ h + 1 \in StarBlocks
               /\ procs[committedBy[h + 1]].address = a

\* the payloads of the resolved submitStar calls for an address, in the
\* order of the calls
RECURSIVE SubmittedStars(_, _)
SubmittedStars(a, n) ==
    IF n = 0 THEN <<>>
    ELSE IF n \in Resolved /\ procs[n].address = a
    THEN Append(SubmittedStars(a, n - 1), procs[n].star)
    ELSE SubmittedStars(a, n - 1)

\* C6: a resolved submitStar returned the block that sits in the store at
\* the height read by the call, and getStarsByWalletAddress of each address
\* returns the payloads of its resolved calls, one per call, in order
C6_SubmitStarEffect ==
    /\ \A p \in Resolved :
          /\ procs[p].block.height = procs[p].heightRead
          /\ getBlockByHeight(procs[p].block.height) = <<procs[p].block>>
    /\ \A a \in Addresses :
          getStarsByWalletAddress(a) = SubmittedStars(a, Len(procs))

\* C7: a getBlockByHash call returns, without raising an error, the block
\* getBlockByHeight returns for the height of the block with that hash, and
\* null for the hash of no committed block
C7_HashLookupRoundTrip ==
    last.op = "getBlockByHash" =>
        /\ last.outcome.kind = "return"
        /\ \A i \in 1..Len(chain) :
              chain[i].hash = last.hash =>
                  last.outcome.value = getBlockByHeight(chain[i].height)
        /\ last.hash \notin KnownHashes => last.outcome.value = Null

\* C8: the hash index maps the hash of every committed block to its index
\* in the store and holds no other hash
C8_HashIndex ==
    /\ \A i \in 1..Len(chain) :
          /\ chain[i].hash \in DOMAIN indexHashToHeight
          /\ indexHashToHeight[chain[i].hash] = i - 1
    /\ DOMAIN indexHashToHeight \subseteq KnownHashes

\* the age in seconds, at the call, of the issued message of the last call
LastElapsed == (last.nowMs \div 1000) - (last.issuedMs \div 1000)

\* the last call was a submitStar with an issued message for its own address
LastIssuedOwn ==
    /\ last.op = "submitStar"
    /\ last.form = "issued"
    /\ Head(last.message) = last.address

ExpiredError == "star can no longer be validated with this message"

\* C9: expiry boundary: a submitStar with a well-formed message for the
\* given address and a valid timestamp is rejected as expired exactly when
\* the message is 300 seconds old or older; a message from the future is not
C9_ExpiryBoundary ==
    LastIssuedOwn => (last.outcome = ExpiredError <=> LastElapsed >= 300)

\* a 299 seconds old message was accepted
C9_Witness ==
    LastIssuedOwn /\ LastElapsed = 299 /\ last.outcome = "accepted"

\* a decimal numeral of a positive integer
IsPositiveInteger(field) ==
    /\ field # <<>>
    /\ \A i \in 1..Len(field) : IsDigit(field[i])
    /\ \E i \in 1..Len(field) : field[i] # "0"

\* C10: a submitStar with a well-formed message for the given address whose
\* timestamp is not a positive integer is rejected with the invalid-time error
C10_InvalidTimestamp ==
    last.op = "submitStar" =>
        LET parts == Split(last.message)
        IN (/\ Len(parts) = 3
            /\ parts[3] = <<"starRegistry">>
            /\ parts[1] = <<last.address>>
            /\ ~IsPositiveInteger(parts[2]))
           => last.outcome = "message time is invalid"

\* the number of ':' in a message
Colons(message) == Cardinality({i \in 1..Len(message) : message[i] = ":"})

\* a message of three parts that ends with the part 'starRegistry'
ThreePartsTagged(message) ==
    /\ Colons(message) = 2
    /\ Len(message) >= 2
    /\ message[Len(message)] = "starRegistry"
    /\ message[Len(message) - 1] = ":"

\* C11: a submitStar is rejected with the malformed-message error when its
\* message has not exactly three parts or its third part is not the tag
\* 'starRegistry', whatever the address and the signature, and only then
C11_MalformedMessage ==
    last.op = "submitStar" =>
        (last.outcome = "malformed message" <=> ~ThreePartsTagged(last.message))

\* the two-part message was rejected as malformed, submitted for the address
\* it names and signed by it
C11_Witness ==
    /\ last.op = "submitStar"
    /\ last.form = "two parts"
    /\ last.address = "A"
    /\ last.signer = "A"
    /\ last.outcome = "malformed message"

\* the validateChain calls that have not resolved at once
Validations == {p \in Procs : procs[p].kind = "validateChain"}

\* C12: on a chain built by the genesis commit and submitStar calls only,
\* every validateChain call returns the empty list of diagnostics
C12_ValidChainNoDiagnostics ==
    /\ (last.op = "validateChain" /\ last.outcome.kind = "return")
           => last.outcome.value = <<>>
    /\ \A p \in Validations :
          \/ procs[p].pc \in {"await getBlockByHeight", "await validate"}
          \/ procs[p].pc = "resolved" /\ procs[p].errorLog = <<>>

\* C13: no validateChain call throws or is left without a result
C13_ValidateChainCompletes ==
    \A p \in Validations : procs[p].pc # "thrown"

\* initializeChain has finished and no submitStar call has been accepted
GenesisOnly ==
    /\ procs[1].pc = "resolved"
    /\ \A p \in Procs : procs[p].kind # "submitStar"

Validated ==
    {p \in Procs : procs[p].kind = "validateBlock" /\ procs[p].pc = "resolved"}

\* C15: validateBlock of a committed block of which a field other than hash
\* was changed before the call resolves with false, and validateBlock of a
\* committed block that is unchanged resolves with true
C15_TamperDetection ==
    \A p \in Validated :
        /\ procs[p].tamperedAtCall => procs[p].result = FALSE
        /\ ~procs[p].tamperedAtValidate => procs[p].result = TRUE

\* a validateBlock call on a block changed before the call has resolved
C15_Witness == \E p \in Validated : procs[p].tamperedAtCall

\* every star block in the store is in both indices, and every index entry
\* points into the store
SnapshotConsistent ==
    /\ \A i \in StarBlocks :
          /\ chain[i].hash \in DOMAIN indexHashToHeight
          /\ LET heights == Lookup(indexAddressToHeights,
                                   procs[committedBy[i]].address, <<>>)
             IN \E k \in 1..Len(heights) : heights[k] = chain[i].height
    /\ \A a \in DOMAIN indexAddressToHeights :
          \A k \in 1..Len(indexAddressToHeights[a]) :
              indexAddressToHeights[a][k] < Len(chain)
    /\ \A h \in DOMAIN indexHashToHeight : indexHashToHeight[h] < Len(chain)

\* C16: consistent reads: a read never runs on a store that holds a payload
\* block missing from the index of its submitter or from the hash index, nor
\* on an index that points to a height not in the store
C16_ConsistentReads ==
    last.op = "getBlockByHeight" => SnapshotConsistent

\* C17: getBlockByHeight(h) returns null exactly when h < 0 or h is at least
\* the chain length, returns chain[h] otherwise, raises no error and leaves
\* the chain and both indices as they are
C17_GetBlockByHeight ==
    [][last'.op = "getBlockByHeight" =>
         /\ last'.outcome.kind = "return"
         /\ (last'.outcome.value = Null
               <=> (last'.height < 0 \/ last'.height >= Len(chain)))
         /\ (last'.height >= 0 /\ last'.height < Len(chain))
               => last'.outcome.value = <<chain[last'.height + 1]>>
         /\ UNCHANGED <<chain, indexHashToHeight, indexAddressToHeights>>]_vars

\* the last block of a chain of two or more blocks was looked up and found
C17_Witness ==
    /\ last.op = "getBlockByHeight"
    /\ Len(chain) >= 2
    /\ last.height = Len(chain) - 1
    /\ last.outcome.value = <<chain[Len(chain)]>>

IsPrefix(s, t) == Len(s) <= Len(t) /\ SubSeq(t, 1, Len(s)) = s

\* C18: append-only store: every step leaves the committed blocks in place
\* and unchanged and adds at most one block at the end, and leaves every
\* entry of the address index in place, growing it only at its end
C18_AppendOnly ==
    [][/\ IsPrefix(chain, chain')
       /\ Len(chain') <= Len(chain) + 1
       /\ \A a \in DOMAIN indexAddressToHeights :
             /\ a \in DOMAIN indexAddressToHeights'
             /\ IsPrefix(indexAddressToHeights[a],
                         indexAddressToHeights'[a])]_vars

\* two star blocks were appended and an index entry has grown to two heights
C18_Witness ==
    /\ Len(chain) >= 3
    /\ \E a \in DOMAIN indexAddressToHeights :
          Len(indexAddressToHeights[a]) >= 2

Rejections ==
    {"malformed message",
     "message address does not match given address",
     "message time is invalid",
     "star can no longer be validated with this message",
     "message verification failed"}

\* C19: a submitStar that rejects leaves the chain and both indices as they
\* were, and starts no commit
C19_RejectionChangesNothing ==
    [][(last'.op = "submitStar" /\ last'.outcome \in Rejections) =>
          UNCHANGED <<chain, indexHashToHeight, indexAddressToHeights,
                      procs, microtasks, committedBy>>]_vars

\* a submission was rejected for its signature on a chain that holds a
\* star block
C19_Witness ==
    /\ last.op = "submitStar"
    /\ last.outcome = "message verification failed"
    /\ StarBlocks # {}

\* the error of the earliest step of the protocol that the last submitStar
\* call fails, the steps being: three parts with the tag, the address of the
\* message is the given one, the timestamp is a positive integer, the
\* message is less than 300 seconds old, the signature is of the address
EarliestFailure ==
    LET parts == Split(last.message)
    IN IF ~ThreePartsTagged(last.message) THEN "malformed message"
       ELSE IF parts[1] # <<last.address>>
       THEN "message address does not match given address"
       ELSE IF ~IsPositiveInteger(parts[2]) THEN "message time is invalid"
       ELSE IF (last.nowMs \div 1000) - DigitsPrefix(parts[2], 0) >= 300
       THEN "star can no longer be validated with this message"
       ELSE IF last.signer # last.address THEN "message verification failed"
       ELSE "accepted"

\* C20: check order: a submitStar reports the error of the earliest failing
\* step, and commits only when no step fails
C20_CheckOrder ==
    last.op = "submitStar" => last.outcome = EarliestFailure

====
